---- MODULE Spec2Model ----
(***************************************************************************)
(* Model of sktime's classification evaluate() harness                     *)
(* (classification/model_evaluation/_functions.py) and of EnbPIForecaster  *)
(* (forecasting/enbpi.py).                                                 *)
(*                                                                         *)
(* Python dicts keep insertion order; they are modelled as records         *)
(* [keys |-> sequence of keys, val |-> function from the keys].            *)
(* Python positions are 0-based; sequences here are 1-based, and the fold  *)
(* index produced by enumerate() is kept 0-based as in the source.         *)
(***************************************************************************)
EXTENDS Integers, Sequences, FiniteSets, TLC

VARIABLES
    \* ---- _check_scores, as a function on its own
    metrics,          \* the argument of _check_scores
    metrics_type,     \* the mapping it returns
    cs_exc,           \* the exception it raises, or "none"
    cs_pc,            \* "call" before the call, "done" after
    \* ---- evaluate.gen_y_X_train_test, as a generator on its own
    gen_in,           \* [X, y, cv] given to the generator
    gen_out,          \* the folds yielded so far
    gen_pc,           \* "run", "exhausted" or "raised"
    \* ---- evaluate
    pc,               \* "idle", "loop", "returned", "raised"
    args,             \* the arguments of the evaluate call
    scoring,          \* evaluate's local scoring after _check_scores
    meta_classifier,  \* _evaluate_fold_kwargs["classifier"]
    classifier,       \* evaluate's local variable classifier
    next_fold,        \* how many folds the generator has yielded
    results,          \* evaluate's list results
    retval,           \* the table evaluate returns
    exc,              \* the exception that left evaluate, or "none"
    warns,            \* the warnings emitted, in order
    log,              \* the calls made on classifier objects, in order
    submitted,        \* the tasks handed to a parallel backend
    \* ---- EnbPIForecaster
    f_pc,             \* "new", "constructed", "init_error", "fitting", "fitted"
    f_params,         \* constructor arguments and what __init__ derives
    f_y,              \* self._y
    f_fh,             \* self._fh
    indexes,          \* self.indexes
    forecasters,      \* self.forecasters
    _preds,           \* self._preds
    n_boot,           \* bootstrap samples the last fit_transform returned
    f_ret,            \* what the last call on the forecaster returned
    f_log             \* the calls the last operation made on collaborators

csVars   == <<metrics, metrics_type, cs_exc, cs_pc>>
genVars  == <<gen_in, gen_out, gen_pc>>
evalVars == <<pc, args, scoring, meta_classifier, classifier, next_fold,
              results, retval, exc, warns, log, submitted>>
enbVars  == <<f_pc, f_params, f_y, f_fh, indexes, forecasters, _preds,
              n_boot, f_ret, f_log>>
vars     == <<csVars, genVars, evalVars, enbVars>>

(***************************************************************************)
(* Bounds of the model.                                                    *)
(***************************************************************************)
MaxMetrics   == 2    \* longest list of metrics passed as scoring
MaxInstances == 3    \* most instances in X
MaxSplits    == 2    \* largest n_splits of the KFold splitter

(***************************************************************************)
(* Generic helpers.                                                        *)
(***************************************************************************)
Range(s) == {s[j] : j \in DOMAIN s}

SeqsUpTo(S, n) == UNION {[1..m -> S] : m \in 0..n}

RECURSIVE SelectIdx(_, _, _)
\* the elements of s at the positions in P, in the order of s
SelectIdx(s, P, j) ==
    IF j > Len(s) THEN << >>
    ELSE (IF j \in P THEN <<s[j]>> ELSE << >>) \o SelectIdx(s, P, j + 1)

(***************************************************************************)
(* Insertion-ordered dicts.                                                *)
(***************************************************************************)
DictEmpty == [keys |-> << >>, val |-> << >>]

DictHas(d, k) == k \in Range(d.keys)

DictSet(d, k, v) ==
    [keys |-> IF DictHas(d, k) THEN d.keys ELSE Append(d.keys, k),
     val  |-> [x \in (DOMAIN d.val) \cup {k} |-> IF x = k THEN v ELSE d.val[x]]]

RECURSIVE DictUpdateFrom(_, _, _)
DictUpdateFrom(d, e, j) ==
    IF j > Len(e.keys) THEN d
    ELSE DictUpdateFrom(DictSet(d, e.keys[j], e.val[e.keys[j]]), e, j + 1)

\* d.update(e)
DictUpdate(d, e) == DictUpdateFrom(d, e, 1)

(***************************************************************************)
(* Metrics.  A metric is described by what the classification looks at:    *)
(* whether it is callable, the name line 50 reads (its __name__, or         *)
(* str(metric) when it has none: has_name tells which; a class instance    *)
(* with __call__ or a functools.partial has none),                         *)
(* what inspect.signature gives ("indicator": a parameter named y_prob,    *)
(* y_pred_proba or probas_pred; "plain": none of them; "nosig":            *)
(* inspect.signature raises ValueError or TypeError), and what the trial   *)
(* call metric([0,1], [[.8,.2],[.3,.7]]) does ("ok": returns; "caught":    *)
(* raises TypeError, ValueError or AttributeError; "other": raises any     *)
(* other exception).                                                       *)
(***************************************************************************)
MetricNames == {"accuracy_score", "log_loss", "<lambda>", "functools.partial"}

Metrics == [name : MetricNames, has_name : BOOLEAN, callable : BOOLEAN,
            sig : {"indicator", "plain", "nosig"},
            trial : {"ok", "caught", "other"}]

accuracy_score ==
    [name |-> "accuracy_score", has_name |-> TRUE, callable |-> TRUE,
     sig |-> "plain", trial |-> "caught"]

PROBA_METRICS == {"brier_score_loss", "log_loss", "roc_auc_score"}

\* "true" / "false" for the returned bool, "raise" when the trial call's
\* exception is none of those caught
IsProbaClassificationScore(metric) ==
    IF metric.name \in PROBA_METRICS THEN "true"
    ELSE IF metric.sig = "indicator" THEN "true"
    ELSE IF metric.trial = "ok" THEN "true"
    ELSE IF metric.trial = "caught" THEN "false"
    ELSE "raise"

\* the argument forms of scoring: None, one metric, a list of metrics
ScoringArg(kind, list) == [kind |-> kind, list |-> list]

NormaliseMetrics(m) ==
    IF m.kind = "none" THEN <<accuracy_score>> ELSE m.list

RECURSIVE CheckScoresLoop(_, _, _)
CheckScoresLoop(ms, j, acc) ==
    IF j > Len(ms) THEN [exc |-> "none", metrics_type |-> acc]
    ELSE IF ~ms[j].callable THEN [exc |-> "ValueError", metrics_type |-> DictEmpty]
    ELSE LET p == IsProbaClassificationScore(ms[j]) IN
         IF p = "raise" THEN [exc |-> "TrialCallError", metrics_type |-> DictEmpty]
         ELSE LET scitype == IF p = "true" THEN "pred_proba" ELSE "pred" IN
              CheckScoresLoop(ms, j + 1,
                  IF ~DictHas(acc, scitype)
                  THEN DictSet(acc, scitype, <<ms[j]>>)
                  ELSE DictSet(acc, scitype, Append(acc.val[scitype], ms[j])))

_check_scores(m) == CheckScoresLoop(NormaliseMetrics(m), 1, DictEmpty)

ScoringArgs ==
    {ScoringArg("none", << >>)}
    \cup {ScoringArg("single", <<m>>) : m \in Metrics}
    \cup {ScoringArg("list", l) : l \in SeqsUpTo(Metrics, MaxMetrics)}

(***************************************************************************)
(* Column schema.                                                          *)
(***************************************************************************)
\* getattr(metric, "alpha", None): the metrics of this model are plain
\* functions and carry no alpha attribute
MetricAlpha(metric) == "None"

\* "none" stands for the empty dict {}
_get_pred_args_from_metric(scitype, metric) ==
    IF scitype = "pred_quantiles" /\ MetricAlpha(metric) # "None"
    THEN MetricAlpha(metric)
    ELSE "none"

\* metric.__name__, read with no fallback (lines 136, 141, 203, 208, 233):
\* "none", or the exception it raises
NameError(metric) == IF metric.has_name THEN "none" ELSE "AttributeError"

\* time_key, result_key and y_pred_key of one metric; exc is the exception
\* the computation of result_key raises, and then the keys are not made
MetricKeys(scitype, metric) ==
    LET pred_args == _get_pred_args_from_metric(scitype, metric) IN
    IF pred_args = "none"
    THEN [time_key   |-> scitype \o "_time",
          result_key |-> "test_" \o metric.name,
          y_pred_key |-> "y_" \o scitype,
          exc        |-> NameError(metric)]
    ELSE [time_key   |-> scitype \o "_" \o pred_args \o "_time",
          result_key |-> "test_" \o metric.name \o "_" \o pred_args,
          y_pred_key |-> "y_" \o scitype \o "_" \o pred_args,
          exc        |-> NameError(metric)]

RECURSIVE FlatFrom(_, _)
FlatFrom(sc, j) ==
    IF j > Len(sc.keys) THEN << >>
    ELSE [m \in 1..Len(sc.val[sc.keys[j]]) |->
             [scitype |-> sc.keys[j], metric |-> sc.val[sc.keys[j]][m]]]
         \o FlatFrom(sc, j + 1)

\* the (scitype, metric) pairs in the order of the nested loops
\* "for scitype in scoring: for metric in scoring.get(scitype)"
Flat(sc) == FlatFrom(sc, 1)

Y_METADATA ==
    [keys |-> <<"X_train", "X_test", "y_train", "y_test">>,
     val  |-> [c \in {"X_train", "X_test", "y_train", "y_test"} |-> "object"]]

RECURSIVE ColumnLoop(_, _, _, _)
ColumnLoop(flat, j, return_data, st) ==
    IF j > Len(flat) \/ st.exc # "none" THEN st
    ELSE LET k == MetricKeys(flat[j].scitype, flat[j].metric) IN
         IF k.exc # "none" THEN [st EXCEPT !.exc = k.exc]
         ELSE
         ColumnLoop(flat, j + 1, return_data,
             [fit_metadata     |-> DictSet(st.fit_metadata, k.time_key, "float"),
              metrics_metadata |-> DictSet(st.metrics_metadata, k.result_key, "float"),
              y_metadata       |-> IF return_data
                                   THEN DictSet(st.y_metadata, k.y_pred_key, "object")
                                   ELSE st.y_metadata,
              exc              |-> "none"])

\* the returned dict [keys, val]; exc is the exception raised instead
_get_column_order_and_datatype(metric_types, return_data) ==
    LET st == ColumnLoop(Flat(metric_types), 1, return_data,
                  [fit_metadata     |-> DictSet(DictEmpty, "fit_time", "float"),
                   metrics_metadata |-> DictEmpty,
                   y_metadata       |-> Y_METADATA,
                   exc              |-> "none"])
        fit_metadata == IF return_data
                        THEN DictUpdate(st.fit_metadata, st.y_metadata)
                        ELSE st.fit_metadata
        d == DictUpdate(st.metrics_metadata, fit_metadata)
    IN IF st.exc # "none"
       THEN [keys |-> << >>, val |-> << >>, exc |-> st.exc]
       ELSE [keys |-> d.keys, val |-> d.val, exc |-> "none"]

\* the columns of pd.DataFrame(temp_result): the keys in insertion order
FrameOf(temp_result) ==
    [cols |-> temp_result.keys, vals |-> temp_result.val]

\* faulty variant: the frame is returned as assembled
Reindex_Skip(frame, columns) == frame

\* frame.reindex(columns=columns): exactly the given columns in the given
\* order; a column the frame lacks is filled with NaN
Reindex(frame, columns) ==
    [cols |-> columns,
     vals |-> [c \in Range(columns) |->
                 IF c \in Range(frame.cols) THEN frame.vals[c] ELSE "nan"]]

(***************************************************************************)
(* _evaluate_fold.  The classifier and the metrics are collaborators: what *)
(* they do in one fold is given by the first call that raises, if any:    *)
(*   [at |-> "none"]             no call raises,                           *)
(*   [at |-> "clone"], "fit"     clone() / fit() raises,                   *)
(*   [at |-> "predict", m |-> j] the prediction method called for the j-th *)
(*                               metric of the nested loops raises,        *)
(*   [at |-> "score", m |-> j]   the j-th metric itself raises.            *)
(* Measured durations are the tokens "fit_dt" and "<method>_dt.c"; the     *)
(* c-th prediction made in fold i is the token "<method>_out#i.c".         *)
(***************************************************************************)
\* what metric(y_test, y_pred) returns: a value fixed by the metric and the
\* prediction it is given
ScoreValue(metric, y_pred) == metric.name \o "(" \o y_pred \o ")"

PRED_TYPE ==
    [pred_quantiles |-> "predict_quantiles",
     pred_proba     |-> "predict_proba",
     pred           |-> "predict"]

\* a call made on a classifier object or a metric: obj is the object called
\* (for clone: the new object, and src the object cloned), ok whether the
\* call returned
Event(op, obj, src, fold, arg, ok) ==
    [op |-> op, obj |-> obj, src |-> src, fold |-> fold, arg |-> arg, ok |-> ok]

\* the prediction methods called so far in a fold
PredCalls(fold_log) ==
    Cardinality({p \in DOMAIN fold_log :
                    fold_log[p].op \in {PRED_TYPE[t] : t \in DOMAIN PRED_TYPE}})

\* what the c-th prediction call of a fold returns, and how long it took
PredToken(method, fold, c) ==
    method \o "_out#" \o ToString(fold) \o "." \o ToString(c)

TimeToken(method, c) == method \o "_dt." \o ToString(c)

\* faulty variant: the cache is never consulted
CacheMiss_Always(y_preds_cache, y_pred_key) == TRUE

\* line 212: y_pred_key not in y_preds_cache.keys()
CacheMiss(y_preds_cache, y_pred_key) == ~DictHas(y_preds_cache, y_pred_key)

\* lines 197-222: st.ok turns FALSE at the first call that raises
RECURSIVE ScoreLoop(_, _, _, _, _, _)
ScoreLoop(flat, j, st, obj, fold, beh) ==
    IF j > Len(flat) \/ ~st.ok THEN st
    ELSE
    LET scitype == flat[j].scitype
        metric  == flat[j].metric
        method  == PRED_TYPE[scitype]
        k       == MetricKeys(scitype, metric)
        miss    == CacheMiss(st.y_preds_cache, k.y_pred_key)
        call    == PredCalls(st.log) + 1
        y_out   == PredToken(method, fold, call)
        predEv(ok)  == Event(method, obj, obj, fold, k.y_pred_key, ok)
        scoreEv(ok) == Event("score", obj, obj, fold, k.result_key, ok)
    IN
    IF k.exc # "none"
    THEN \* line 203 raises before any call is made for this metric
         [st EXCEPT !.ok = FALSE, !.exc = k.exc]
    ELSE
    IF miss /\ beh.at = "predict" /\ beh.m = j
    THEN [st EXCEPT !.ok = FALSE, !.log = Append(@, predEv(FALSE))]
    ELSE
    LET afterPred ==
            IF miss
            THEN [st EXCEPT
                    !.y_pred = y_out,
                    !.pred_time = TimeToken(method, call),
                    !.temp_result = DictSet(@, k.time_key, TimeToken(method, call)),
                    !.y_preds_cache = DictSet(@, k.y_pred_key, y_out),
                    !.log = Append(@, predEv(TRUE))]
            ELSE [st EXCEPT !.y_pred = st.y_preds_cache.val[k.y_pred_key]]
    IN
    IF beh.at = "score" /\ beh.m = j
    THEN [afterPred EXCEPT !.ok = FALSE, !.log = Append(@, scoreEv(FALSE))]
    ELSE ScoreLoop(flat, j + 1,
             [afterPred EXCEPT
                 !.score = ScoreValue(metric, afterPred.y_pred),
                 !.temp_result = DictSet(@, k.result_key,
                                         ScoreValue(metric, afterPred.y_pred)),
                 !.log = Append(@, scoreEv(TRUE))],
             obj, fold, beh)

\* lines 228-233: the defaults written when the try block raised; exc is
\* the exception line 233 raises for a metric without __name__
RECURSIVE DefaultMetricLoop(_, _, _, _)
DefaultMetricLoop(ms, j, tr, score) ==
    IF j > Len(ms) THEN [tr |-> tr, exc |-> "none"]
    ELSE IF NameError(ms[j]) # "none" THEN [tr |-> tr, exc |-> NameError(ms[j])]
    ELSE DefaultMetricLoop(ms, j + 1, DictSet(tr, "test_" \o ms[j].name, score), score)

RECURSIVE DefaultLoop(_, _, _, _, _, _, _)
DefaultLoop(sc, j, tr, pred_time, y_pred, score, return_data) ==
    IF j > Len(sc.keys) THEN [tr |-> tr, exc |-> "none"]
    ELSE
    LET scitype == sc.keys[j]
        t1 == DictSet(tr, scitype \o "_time", pred_time)
        t2 == IF return_data THEN DictSet(t1, "y_" \o scitype, y_pred) ELSE t1
        t3 == DefaultMetricLoop(sc.val[scitype], 1, t2, score)
    IN IF t3.exc # "none" THEN t3
       ELSE DefaultLoop(sc, j + 1, t3.tr, pred_time, y_pred, score, return_data)

\* type(classifier).__name__: a clone is of the class of the object cloned
ClassifierType == "DummyClassifier"

TypeName(obj) == ClassifierType

\* what the warning of lines 234-246 names
FitFailedWarning(obj, fold, y_train, error_score) ==
    [category |-> "FitFailedWarning", classifier_type |-> TypeName(obj),
     split |-> fold, len_y_train |-> Len(y_train), error_score |-> error_score]

\* faulty variant: the exception is swallowed whatever the policy
Reraises_Never(error_score) == FALSE

\* lines 225-226
Reraises(error_score) == error_score = "raise"

\* lines 176-222, the try block: what it leaves behind.  x = (i, (y_train,
\* y_test, X_train, X_test)) is [i, y_train, ...]; meta is
\* _evaluate_fold_kwargs; fresh is the identity clone() gives the new
\* object.  st.exc is the exception raised when st.ok is FALSE: "FoldError"
\* for one of the classifier or of a metric, "AttributeError" for
\* metric.__name__ of a metric that has none.
TryBlock(x, meta, beh, fresh) ==
    LET st0 == [temp_result |-> DictEmpty, y_preds_cache |-> DictEmpty,
                score |-> meta.error_score, pred_time |-> "nan",
                y_pred |-> "NA", log |-> << >>, ok |-> TRUE, exc |-> "FoldError"]
        template == meta.classifier
        cloneEv == Event("clone", fresh, template, x.i, "", TRUE)
        fitEv(ok) == Event("fit", fresh, fresh, x.i, "", ok)
    IN  IF beh.at = "clone"
        THEN [st |-> [st0 EXCEPT !.ok = FALSE,
                                 !.log = <<Event("clone", template, template,
                                                 x.i, "", FALSE)>>],
              classifier |-> template, fit_time |-> "nan"]
        ELSE IF beh.at = "fit"
        THEN [st |-> [st0 EXCEPT !.ok = FALSE, !.log = <<cloneEv, fitEv(FALSE)>>],
              classifier |-> fresh, fit_time |-> "nan"]
        ELSE [st |-> ScoreLoop(Flat(meta.scoring), 1,
                               [st0 EXCEPT !.log = <<cloneEv, fitEv(TRUE)>>],
                               fresh, x.i, beh),
              classifier |-> fresh, fit_time |-> "fit_dt"]

\* lines 224-233, the except block after the try block left st: temp_result
\* as it leaves it, and the exception that leaves it ("none": none)
ExceptBlock(meta, st) ==
    IF st.ok THEN [tr |-> st.temp_result, exc |-> "none"]
    ELSE IF Reraises(meta.error_score) THEN [tr |-> st.temp_result, exc |-> st.exc]
    ELSE DefaultLoop(meta.scoring, 1, st.temp_result, st.pred_time,
                     st.y_pred, st.score, meta.return_data)

\* lines 234-261: the warning of the except block, the remaining columns,
\* the frame and its reindexing
FoldResult(x, meta, tried, handler, column_order) ==
    LET e == IF handler.exc # "none" THEN handler.exc ELSE column_order.exc
        t1 == DictSet(handler.tr, "fit_time", tried.fit_time)
        t2 == IF meta.return_data
              THEN DictUpdate(
                     DictSet(DictSet(DictSet(DictSet(t1,
                        "X_train", x.X_train), "X_test", x.X_test),
                        "y_train", x.y_train), "y_test", x.y_test),
                     tried.st.y_preds_cache)
              ELSE t1
    IN [raised     |-> e # "none",
        exc        |-> e,
        result     |-> Reindex(FrameOf(t2), column_order.keys),
        classifier |-> tried.classifier,
        warns      |-> IF tried.st.ok \/ handler.exc # "none" THEN << >>
                       ELSE <<FitFailedWarning(tried.classifier, x.i, x.y_train,
                                               meta.error_score)>>,
        log        |-> tried.st.log]

FoldExcept(x, meta, tried) ==
    FoldResult(x, meta, tried, ExceptBlock(meta, tried.st),
               _get_column_order_and_datatype(meta.scoring, meta.return_data))

\* Returns [raised, exc, result, classifier, warns, log]: raised tells
\* whether an exception leaves the function, exc which
_evaluate_fold(x, meta, beh, fresh) == FoldExcept(x, meta, TryBlock(x, meta, beh, fresh))

(***************************************************************************)
(* Data and the splitter.  X is a pd-multiindex panel: a sequence of rows  *)
(* [inst, t]; y is a table with one row [ix, label] per instance, the j-th *)
(* row belonging to the j-th distinct instance of X.  cv is a KFold:       *)
(* n_splits and, with shuffle=True, the permutation its random state       *)
(* draws (perm; the identity without shuffle).                             *)
(***************************************************************************)
SeriesLen == 2    \* time points per instance

PermsOf(n) == {p \in [1..n -> 1..n] : Range(p) = 1..n}

Identity(n) == [j \in 1..n |-> j]

\* instance identifiers: positional (0, 1, ..) or not (12, 10, 8, ..)
InstanceIds(n, scheme) ==
    [j \in 1..n |-> IF scheme = "range" THEN j - 1 ELSE 2 * (n - j) + 8]

\* rows instance by instance, or time point by time point
PanelX(n, scheme, layout) ==
    LET ids == InstanceIds(n, scheme) IN
    [r \in 1..(n * SeriesLen) |->
        IF layout = "by_instance"
        THEN [inst |-> ids[((r - 1) \div SeriesLen) + 1], t |-> (r - 1) % SeriesLen]
        ELSE [inst |-> ids[((r - 1) % n) + 1], t |-> (r - 1) \div n]]

TableY(n) == [j \in 1..n |-> [ix |-> j - 1, label |-> (j - 1) % 2]]

RECURSIVE UniqueFrom(_, _, _)
UniqueFrom(s, j, acc) ==
    IF j > Len(s) THEN acc
    ELSE UniqueFrom(s, j + 1, IF s[j] \in Range(acc) THEN acc ELSE Append(acc, s[j]))

\* X.index.get_level_values(0).unique(): in order of first appearance
InstanceIdx(X) == UniqueFrom([r \in 1..Len(X) |-> X[r].inst], 1, << >>)

\* sklearn KFold.split over n samples: fold f tests the f-th consecutive
\* block of the (shuffled) indices, the first n % k blocks one longer; train
\* and test indices are both returned in increasing order (here as sets of
\* 1-based positions)
KFoldStart(n, k, f) ==
    (f - 1) * (n \div k) + (IF f - 1 < n % k THEN f - 1 ELSE n % k)

KFoldSplit(n, k, perm) ==
    [f \in 1..k |->
        LET test == {perm[p] : p \in (KFoldStart(n, k, f) + 1)..KFoldStart(n, k, f + 1)}
        IN [train |-> (1..n) \ test, test |-> test]]

\* faulty variant: the positions are taken for the identifiers
TakeInstances_Positions(instance_idx, positions) == {p - 1 : p \in positions}

\* instance_idx[train_instance_idx]
TakeInstances(instance_idx, positions) == {instance_idx[p] : p \in positions}

\* evaluate.gen_y_X_train_test: the folds the generator yields, in order;
\* [raised |-> TRUE] when cv.split raises (n_splits > number of instances)
gen_y_X_train_test(y, X, cv) ==
    LET instance_idx == InstanceIdx(X)
        n == Len(instance_idx)
    IN
    IF cv.n_splits > n THEN [raised |-> TRUE, folds |-> << >>]
    ELSE
    LET splits == KFoldSplit(n, cv.n_splits, cv.perm) IN
    [raised |-> FALSE,
     folds  |->
       [f \in 1..cv.n_splits |->
          LET train_instances == TakeInstances(instance_idx, splits[f].train)
              test_instances  == TakeInstances(instance_idx, splits[f].test)
              InTrain(r) == r.inst \in train_instances
              InTest(r)  == r.inst \in test_instances
          IN [X_train |-> SelectSeq(X, InTrain),
              X_test  |-> SelectSeq(X, InTest),
              y_train |-> SelectIdx(y, splits[f].train, 1),
              y_test  |-> SelectIdx(y, splits[f].test, 1)]]]

(***************************************************************************)
(* _check_scores on its own.                                               *)
(***************************************************************************)
CheckScoresCall ==
    /\ cs_pc = "call"
    /\ LET r == _check_scores(metrics) IN
       /\ metrics_type' = r.metrics_type
       /\ cs_exc' = r.exc
    /\ cs_pc' = "done"
    /\ UNCHANGED <<metrics, genVars, evalVars, enbVars>>

(***************************************************************************)
(* gen_y_X_train_test on its own: one action per next() on the generator.  *)
(***************************************************************************)
GenInputs ==
    UNION {{[ids |-> InstanceIds(n, scheme),
             X |-> PanelX(n, scheme, layout), y |-> TableY(n),
             cv |-> [n_splits |-> k, perm |-> perm]] :
               scheme \in {"range", "sparse"},
               layout \in {"by_instance", "by_time"}, k \in 2..MaxSplits,
               perm \in PermsOf(n)} : n \in 1..MaxInstances}

GenNextFold ==
    /\ gen_pc = "run"
    /\ LET g == gen_y_X_train_test(gen_in.y, gen_in.X, gen_in.cv) IN
       IF g.raised
       THEN gen_pc' = "raised" /\ UNCHANGED gen_out
       ELSE IF Len(gen_out) < Len(g.folds)
       THEN gen_out' = Append(gen_out, g.folds[Len(gen_out) + 1])
            /\ UNCHANGED gen_pc
       ELSE gen_pc' = "exhausted" /\ UNCHANGED gen_out
    /\ UNCHANGED <<gen_in, csVars, evalVars, enbVars>>

(***************************************************************************)
(* evaluate.  EvaluateStart is lines 398-454 (checks, conversions, the     *)
(* keyword dict, the generator), EvaluateFold one iteration of the loop of *)
(* lines 455-457, EvaluateFinish lines 459-474.                            *)
(***************************************************************************)
Template == 0    \* identity of the classifier object the caller passes

DaskBackends == {"dask", "dask_lazy"}

lambda_pred ==
    [name |-> "<lambda>", has_name |-> TRUE, callable |-> TRUE,
     sig |-> "plain", trial |-> "caught"]
log_loss ==
    [name |-> "log_loss", has_name |-> TRUE, callable |-> TRUE,
     sig |-> "plain", trial |-> "ok"]
not_callable ==
    [name |-> "accuracy_score", has_name |-> TRUE, callable |-> FALSE,
     sig |-> "nosig", trial |-> "caught"]
raising_trial ==
    [name |-> "<lambda>", has_name |-> TRUE, callable |-> TRUE,
     sig |-> "plain", trial |-> "other"]
\* a functools.partial of a label metric: callable, without __name__
partial_pred ==
    [name |-> "functools.partial", has_name |-> FALSE, callable |-> TRUE,
     sig |-> "plain", trial |-> "caught"]

\* the values of scoring evaluate is called with
EvalScorings ==
    {ScoringArg("none", << >>),
     ScoringArg("single", <<log_loss>>),
     ScoringArg("list", << >>),
     ScoringArg("list", <<accuracy_score, log_loss>>),
     ScoringArg("list", <<log_loss, accuracy_score>>),
     ScoringArg("list", <<accuracy_score, lambda_pred>>),
     ScoringArg("list", <<accuracy_score, accuracy_score>>),
     ScoringArg("list", <<accuracy_score, not_callable>>),
     ScoringArg("list", <<log_loss, partial_pred>>),
     ScoringArg("list", <<raising_trial>>)}

ErrorScores == {"raise", "-1"}

\* backend, backend_params and whether the dask package is installed
RunConfigs ==
    {[backend |-> "None", backend_params |-> "None", dask_installed |-> TRUE],
     [backend |-> "loky", backend_params |-> "n_jobs=2", dask_installed |-> TRUE],
     [backend |-> "dask", backend_params |-> "None", dask_installed |-> TRUE],
     [backend |-> "dask", backend_params |-> "None", dask_installed |-> FALSE],
     [backend |-> "dask_lazy", backend_params |-> "None", dask_installed |-> TRUE]}

EvalArgs ==
    UNION {
      [classifier : {Template},
       X : {PanelX(n, "sparse", "by_instance")}, y : {TableY(n)},
       cv : [n_splits : 2..MaxSplits, perm : {Identity(n)}],
       scoring : EvalScorings, return_data : BOOLEAN,
       error_score : ErrorScores,
       run : RunConfigs, valid : {"ok", "bad_y", "bad_X"}]
      : n \in 1..MaxInstances}

EvaluateStart ==
    /\ pc = "idle"
    /\ LET r == _check_scores(args.scoring)
           e == IF args.run.backend \in DaskBackends /\ ~args.run.dask_installed
                THEN "RuntimeError"
                ELSE IF r.exc # "none" THEN r.exc
                ELSE IF args.valid # "ok" THEN "TypeError"
                ELSE "none"
       IN IF e # "none"
          THEN /\ pc' = "raised"
               /\ exc' = e
               /\ UNCHANGED <<scoring, meta_classifier>>
          ELSE /\ pc' = "loop"
               /\ scoring' = r.metrics_type
               /\ meta_classifier' = args.classifier
               /\ UNCHANGED exc
    /\ UNCHANGED <<args, classifier, next_fold, results, retval, warns, log,
                   submitted, csVars, genVars, enbVars>>

\* faulty variant: the keyword dict follows the rebound local classifier
FoldKwargs_Rebound ==
    [classifier |-> classifier, scoring |-> scoring,
     return_data |-> args.return_data, error_score |-> args.error_score]

\* _evaluate_fold_kwargs
FoldKwargs ==
    [classifier |-> meta_classifier, scoring |-> scoring,
     return_data |-> args.return_data, error_score |-> args.error_score]

\* the behaviours that differ on scoring sc: a prediction method is called
\* for the j-th metric only if no earlier metric has the same y_pred_key,
\* and no call is made for a metric from the first one without __name__ on
Behaviours(sc) ==
    LET flat == Flat(sc)
        keys(j) == MetricKeys(flat[j].scitype, flat[j].metric)
        first(j) == \A h \in 1..(j - 1) : keys(h).y_pred_key # keys(j).y_pred_key
        called == {j \in 1..Len(flat) : \A h \in 1..j : keys(h).exc = "none"}
    IN [at : {"none", "clone", "fit"}, m : {0}]
       \cup [at : {"score"}, m : called]
       \cup {[at |-> "predict", m |-> j] : j \in {h \in called : first(h)}}

\* faulty variant: the new frame is put in front of the list
AppendResult_Prepend(rs, result, i) == <<[frame |-> result, origin |-> i]>> \o rs

\* results.append(result); origin records which fold the frame was computed
\* from (it is no part of the frame)
AppendResult(rs, result, i) == Append(rs, [frame |-> result, origin |-> i])

EvaluateFold ==
    /\ pc = "loop"
    /\ LET g == gen_y_X_train_test(args.y, args.X, args.cv) IN
       /\ g.raised \/ next_fold < Len(g.folds)
       /\ IF g.raised
          THEN /\ pc' = "raised"
               /\ exc' = "ValueError"
               /\ UNCHANGED <<classifier, next_fold, results, warns, log>>
          ELSE \E beh \in Behaviours(scoring) :
               LET d == g.folds[next_fold + 1]
                   x == [i |-> next_fold, y_train |-> d.y_train, y_test |-> d.y_test,
                         X_train |-> d.X_train, X_test |-> d.X_test]
                   r == _evaluate_fold(x, FoldKwargs, beh, next_fold + 1)
               IN /\ log' = log \o r.log
                  /\ next_fold' = next_fold + 1
                  /\ IF r.raised
                     THEN /\ pc' = "raised"
                          /\ exc' = r.exc
                          /\ UNCHANGED <<classifier, results, warns>>
                     ELSE /\ classifier' = r.classifier
                          /\ results' = AppendResult(results, r.result, next_fold)
                          /\ warns' = warns \o r.warns
                          /\ UNCHANGED <<pc, exc>>
    /\ UNCHANGED <<args, scoring, meta_classifier, retval, submitted,
                   csVars, genVars, enbVars>>

RECURSIVE AllColumns(_, _)
AllColumns(rs, j) ==
    IF j > Len(rs) THEN << >> ELSE rs[j].frame.cols \o AllColumns(rs, j + 1)

\* pd.concat(results): the rows in list order, each keeping its own index 0;
\* the columns are those of the frames, in order of first appearance
Concat(rs) ==
    [index |-> [j \in 1..Len(rs) |-> 0], rows |-> rs,
     columns |-> UniqueFrom(AllColumns(rs, 1), 1, << >>), lazy |-> FALSE]

\* results.reset_index(drop=True)
ResetIndex(t) == [t EXCEPT !.index = [j \in 1..Len(t.rows) |-> j - 1]]

\* lines 468-474, backend not dask
EvaluateFinish ==
    /\ pc = "loop"
    /\ args.run.backend \notin DaskBackends
    /\ LET g == gen_y_X_train_test(args.y, args.X, args.cv) IN
       ~g.raised /\ next_fold = Len(g.folds)
    /\ IF Len(results) = 0
       THEN pc' = "raised" /\ exc' = "ValueError" /\ UNCHANGED retval
       ELSE /\ pc' = "returned"
            /\ retval' = ResetIndex(Concat(results))
            /\ UNCHANGED exc
    /\ UNCHANGED <<args, scoring, meta_classifier, classifier, next_fold,
                   results, warns, log, submitted, csVars, genVars, enbVars>>

\* lines 460-467 and 472-474, backend dask or dask_lazy: results holds plain
\* frames, and what dask's from_delayed makes of them is dask's business: it
\* raises (from_ok = FALSE) or builds the table
EvaluateFinishDask ==
    /\ pc = "loop"
    /\ args.run.backend \in DaskBackends
    /\ LET g == gen_y_X_train_test(args.y, args.X, args.cv) IN
       ~g.raised /\ next_fold = Len(g.folds)
    /\ \E from_ok \in BOOLEAN :
       LET metadata == _get_column_order_and_datatype(scoring, args.return_data) IN
       IF metadata.exc # "none"
       THEN pc' = "raised" /\ exc' = metadata.exc /\ UNCHANGED retval
       ELSE
       IF ~from_ok
       THEN pc' = "raised" /\ exc' = "TypeError" /\ UNCHANGED retval
       ELSE /\ pc' = "returned"
            /\ retval' = [ResetIndex(Concat(results)) EXCEPT
                             !.lazy = (args.run.backend = "dask_lazy")]
            /\ UNCHANGED exc
    /\ UNCHANGED <<args, scoring, meta_classifier, classifier, next_fold,
                   results, warns, log, submitted, csVars, genVars, enbVars>>

(***************************************************************************)
(* EnbPIForecaster.  Numbers that np.mean / np.median produce are kept as  *)
(* fractions <<numerator, denominator>> in lowest terms.                   *)
(***************************************************************************)
MaxBoot == 3    \* most bootstrap samples the transformer returns
MaxFh   == 2    \* longest forecasting horizon
MaxLen  == 3    \* longest training series
MaxCov  == 2    \* most coverage levels in one predict_interval call

Coverages == {50, 90}       \* coverage levels, in percent

RECURSIVE Gcd(_, _)
Gcd(a, b) == IF b = 0 THEN a ELSE Gcd(b, a % b)

Frac(num, den) == <<num \div Gcd(num, den), den \div Gcd(num, den)>>

RECURSIVE SumSeq(_)
SumSeq(s) == IF s = << >> THEN 0 ELSE Head(s) + SumSeq(Tail(s))

RECURSIVE Insert(_, _)
Insert(v, s) ==
    IF s = << >> THEN <<v>>
    ELSE IF v <= Head(s) THEN <<v>> \o s
    ELSE <<Head(s)>> \o Insert(v, Tail(s))

RECURSIVE Sorted(_)
Sorted(s) == IF s = << >> THEN << >> ELSE Insert(Head(s), Sorted(Tail(s)))

\* np.mean over the ensemble axis
NpMean(s) == Frac(SumSeq(s), Len(s))

\* np.median over the ensemble axis
NpMedian(s) ==
    LET t == Sorted(s)
        n == Len(s)
    IN IF n % 2 = 1 THEN Frac(t[(n + 1) \div 2], 1)
       ELSE Frac(t[n \div 2] + t[(n \div 2) + 1], 2)

\* faulty variant: the two functions are exchanged
AggregationFunction_Swapped(aggregation_function) ==
    IF aggregation_function = "mean" THEN "np.median"
    ELSE IF aggregation_function = "median" THEN "np.mean"
    ELSE "unset"

\* lines 141-144: what __init__ stores as self._aggregation_function
AggregationFunction(aggregation_function) ==
    IF aggregation_function = "mean" THEN "np.mean"
    ELSE IF aggregation_function = "median" THEN "np.median"
    ELSE "unset"

\* self._aggregation_function(np.stack(preds, axis=0), axis=0), one value
\* per horizon step
Aggregate(_aggregation_function, preds, H) ==
    [h \in 1..H |->
        LET column == [m \in 1..Len(preds) |-> preds[m][h]] IN
        IF _aggregation_function = "np.mean" THEN NpMean(column)
        ELSE NpMedian(column)]

\* the bootstrap_transformer argument: None, a tsbootstrap object (its tag
\* object_type is "bootstrap"), or an sktime transformer with or without
\* the tag capability:bootstrap_index and with return_indices set or not
Transformers ==
    {[kind |-> "None", capable |-> FALSE, return_indices |-> FALSE],
     [kind |-> "tsbootstrap", capable |-> FALSE, return_indices |-> FALSE]}
    \cup [kind : {"sktime"}, capable : BOOLEAN, return_indices : BOOLEAN]

\* TSBootstrapAdapter(bootstrap_transformer, return_indices=True)
TSBootstrapAdapter(bt, return_indices) ==
    [kind |-> "adapter", capable |-> TRUE, return_indices |-> return_indices]

Unset == [kind |-> "unset", capable |-> FALSE, return_indices |-> FALSE]

\* faulty variant: the check of lines 177-187 is left out
EnbPIInit_NoCheck(bootstrap_transformer, aggregation_function) ==
    IF aggregation_function \notin {"mean", "median"}
    THEN [exc |-> "ValueError", bootstrap_transformer_ |-> Unset]
    ELSE IF bootstrap_transformer.kind = "None"
    THEN [exc |-> "AttributeError", bootstrap_transformer_ |-> Unset]
    ELSE [exc |-> "none",
          bootstrap_transformer_ |->
              IF bootstrap_transformer.kind = "tsbootstrap"
              THEN TSBootstrapAdapter(bootstrap_transformer, TRUE)
              ELSE bootstrap_transformer]

\* __init__: [exc, aggregation, bootstrap_transformer_]
EnbPIInit(bootstrap_transformer, aggregation_function) ==
    IF aggregation_function \notin {"mean", "median"}
    THEN [exc |-> "ValueError", bootstrap_transformer_ |-> Unset]
    ELSE IF bootstrap_transformer.kind = "None"
    THEN \* line 153: None has no get_tag
         [exc |-> "AttributeError", bootstrap_transformer_ |-> Unset]
    ELSE
    LET resolved == IF bootstrap_transformer.kind = "tsbootstrap"
                    THEN TSBootstrapAdapter(bootstrap_transformer, TRUE)
                    ELSE bootstrap_transformer
    IN IF ~resolved.capable \/ ~resolved.return_indices
       THEN [exc |-> "ValueError", bootstrap_transformer_ |-> resolved]
       ELSE [exc |-> "none", bootstrap_transformer_ |-> resolved]

Construct ==
    /\ f_pc = "new"
    /\ \E bt \in Transformers, agg \in {"mean", "median", "max"} :
       LET r == EnbPIInit(bt, agg) IN
       /\ f_params' = [bootstrap_transformer |-> bt,
                       aggregation_function |-> agg,
                       _aggregation_function |-> AggregationFunction(agg),
                       bootstrap_transformer_ |-> r.bootstrap_transformer_,
                       exc |-> r.exc]
       /\ f_pc' = IF r.exc = "none" THEN "constructed" ELSE "init_error"
    /\ UNCHANGED <<f_y, f_fh, indexes, forecasters, _preds, n_boot,
                   f_ret, f_log, csVars, genVars, evalVars>>

\* the training series, index 0..L-1: constant, or rising by one a step
YSeries(L, shape) == [t \in 1..L |-> IF shape = "constant" THEN 11 ELSE 10 + t]

TrainingSeries == {YSeries(L, shape) : L \in 2..MaxLen, shape \in {"constant", "ramp"}}

\* the rows of original positions the block bootstrap draws for N samples
\* of a series of length L: sample j is the series rotated by j - 1 + seed
IndexRows(N, L, seed) ==
    [j \in 1..N |-> [t \in 1..L |-> (t - 1 + j - 1 + seed) % L]]

\* the base forecaster is a seasonal naive forecaster of period 2: fitted
\* to a sample, it forecasts for step h the sample's value one or two
\* periods back
SeasonalNaive(sample, H) ==
    [h \in 1..H |-> sample[Len(sample) - 1 + ((h - 1) % 2)]]

\* bootstrap_transformer_.fit_transform(y): one row per sample and time
\* point, with the sample's identifier, the resampled value and the
\* original position it was drawn from
FitTransform(y, rows) ==
    LET L == Len(y) IN
    [r \in 1..(Len(rows) * L) |->
        LET j == ((r - 1) \div L) + 1
            t == ((r - 1) % L) + 1
        IN [sample |-> j, value |-> y[rows[j][t] + 1],
            resampled_index |-> rows[j][t]]]

\* faulty variant: every value becomes a row of its own
Reshape_Flat(flat, ncols) == [r \in 1..Len(flat) |-> <<flat[r]>>]

\* values.reshape((-1, ncols))
Reshape(flat, ncols) ==
    [r \in 1..(Len(flat) \div ncols) |->
        [t \in 1..ncols |-> flat[(r - 1) * ncols + t]]]

NoInputs == [indexes |-> << >>, train_preds |-> << >>,
             test_preds |-> << >>, targets |-> << >>]

FEvent(op, obj, error, inputs) ==
    [op |-> op, obj |-> obj, error |-> error, inputs |-> inputs]

NoObj == 0    \* no ensemble member: members are numbered from 1

\* the loop of lines 205-212 from member j on; fail names the call that
\* raises, if any
RECURSIVE FitLoop(_, _, _, _, _, _)
FitLoop(ids, j, st, L, member_preds, fail) ==
    IF j > Len(ids) \/ ~st.ok THEN st
    ELSE
    LET id == ids[j]
        forecaster == [id |-> id, pred |-> member_preds[j]]
        cloneEv == FEvent("clone", id, -1, NoInputs)
        fitEv == FEvent("fit", id, -1, NoInputs)
        predEv == FEvent("predict_insample", id, -1, NoInputs)
    IN
    IF fail.at = "fit" /\ fail.j = j
    THEN [st EXCEPT !.ok = FALSE, !.log = @ \o <<cloneEv, fitEv>>]
    ELSE IF fail.at = "predict" /\ fail.j = j
    THEN [st EXCEPT !.ok = FALSE,
                    !.forecasters = Append(@, forecaster),
                    !.log = @ \o <<cloneEv, fitEv, predEv>>]
    ELSE FitLoop(ids, j + 1,
             [st EXCEPT !.forecasters = Append(@, forecaster),
                        !._preds = Append(@, [by |-> id, len |-> L]),
                        !.log = @ \o <<cloneEv, fitEv, predEv>>],
             L, member_preds, fail)

\* _fit, lines 189-214, given what fit_transform returns (bs_ts_index) and
\* what the fitted members will forecast
EnbPIFit(y, bs_ts_index, member_preds, fail) ==
    LET tfEv == FEvent("fit_transform", NoObj, -1, NoInputs)
        column == [r \in 1..Len(bs_ts_index) |-> bs_ts_index[r].resampled_index]
        ids == UniqueFrom([r \in 1..Len(bs_ts_index) |-> bs_ts_index[r].sample],
                          1, << >>)
    IN FitLoop(ids, 1,
               [ok |-> TRUE, indexes |-> Reshape(column, Len(y)),
                forecasters |-> << >>, _preds |-> << >>, log |-> <<tfEv>>],
               Len(y), member_preds, fail)

Fails(N) ==
    {[at |-> "none", j |-> 0]} \cup [at : {"fit", "predict"}, j : 1..N]

\* f_ret is the frame the last call returned, with the coverage argument
\* the call was given
NoReturn == [kind |-> "none", index |-> << >>, columns |-> << >>, values |-> << >>,
             coverage |-> << >>]

FitWith(y, H) ==
    \E N \in 1..MaxBoot, seed \in {0, 1} :
    \E fail \in Fails(N) :
       LET rows == IndexRows(N, Len(y), seed)
           bs_ts_index == FitTransform(y, rows)
           member_preds ==
               [j \in 1..N |->
                   SeasonalNaive([t \in 1..Len(y) |-> y[rows[j][t] + 1]], H)]
       IN \E r \in {EnbPIFit(y, bs_ts_index, member_preds, fail)} :
          /\ f_y' = y
          /\ f_fh' = H
          /\ n_boot' = N
          /\ indexes' = r.indexes
          /\ forecasters' = r.forecasters
          /\ _preds' = r._preds
          /\ f_log' = r.log
          /\ f_pc' = IF r.ok THEN "fitted" ELSE "fitting"
          /\ f_ret' = NoReturn
          /\ UNCHANGED <<f_params, csVars, genVars, evalVars>>

\* the first fit(y, fh) of a constructed forecaster
Fit ==
    /\ f_pc = "constructed"
    /\ \E y \in TrainingSeries, H \in 1..MaxFh : FitWith(y, H)

\* fit called again with the series and horizon of the fit before, after
\* that fit succeeded or raised
Refit ==
    /\ f_pc \in {"fitting", "fitted"}
    /\ FitWith(f_y, f_fh)

\* update(y_new): the base class appends the new observation (here: the
\* last value once more) to self._y, _update then refits on self._y with
\* self._fh
Update ==
    /\ f_pc = "fitted"
    /\ Len(f_y) < MaxLen
    /\ FitWith(Append(f_y, f_y[Len(f_y)]), f_fh)

\* fh.to_absolute(self.cutoff): the cutoff is the last index of self._y
AbsoluteIndex(y, H) == [h \in 1..H |-> (Len(y) - 1) + h]

\* [forecaster.predict(fh=fh, X=X) for forecaster in self.forecasters]
MemberPreds(fs) == [m \in 1..Len(fs) |-> fs[m].pred]

MemberPredictLog(fs) ==
    [m \in 1..Len(fs) |-> FEvent("predict", fs[m].id, -1, NoInputs)]

\* _predict, lines 216-225
EnbPIPredict(fs, _aggregation_function, y, H) ==
    [kind |-> "predict", index |-> AbsoluteIndex(y, H), columns |-> <<"y">>,
     values |-> Aggregate(_aggregation_function, MemberPreds(fs), H),
     coverage |-> << >>]

\* faulty variant: the horizon forecasts are appended to self._preds
Predict_StoresPreds ==
    /\ f_pc = "fitted"
    /\ f_ret' = EnbPIPredict(forecasters, f_params._aggregation_function, f_y, f_fh)
    /\ f_log' = MemberPredictLog(forecasters)
    /\ _preds' = Append(_preds, [by |-> NoObj, len |-> f_fh])
    /\ UNCHANGED <<f_pc, f_params, f_y, f_fh, indexes, forecasters,
                   n_boot, csVars, genVars, evalVars>>

Predict ==
    /\ f_pc = "fitted"
    /\ f_ret' = EnbPIPredict(forecasters, f_params._aggregation_function, f_y, f_fh)
    /\ f_log' = MemberPredictLog(forecasters)
    /\ UNCHANGED <<f_pc, f_params, f_y, f_fh, indexes, forecasters, _preds,
                   n_boot, csVars, genVars, evalVars>>

\* EnbPI(...).conformal_interval(...).reshape(-1, 2): the routine is a
\* library's; its output for the call-th invocation is one (lower, upper)
\* pair per horizon step, kept as tokens
ConformalInterval(call, error, H) ==
    [h \in 1..H |->
        <<[side |-> "lower", step |-> h, error |-> error, call |-> call],
          [side |-> "upper", step |-> h, error |-> error, call |-> call]>>]

RECURSIVE ConcatAxis1(_, _, _)
\* np.concatenate(intervals, axis=1), row h
ConcatAxis1(intervals, j, h) ==
    IF j > Len(intervals) THEN << >>
    ELSE intervals[j][h] \o ConcatAxis1(intervals, j + 1, h)

\* pd.MultiIndex.from_product([self._y.columns, coverage, ["lower", "upper"]])
IntervalColumns(coverage) ==
    [c \in 1..(2 * Len(coverage)) |->
        <<"y", coverage[((c - 1) \div 2) + 1],
          IF c % 2 = 1 THEN "lower" ELSE "upper">>]

\* faulty variant: the coverage is passed as the error rate
EnbPIPredictInterval_CoverageAsError(fs, ixs, train_preds, y, H, coverage) ==
    LET preds == MemberPreds(fs)
        inputs == [indexes |-> ixs, train_preds |-> train_preds,
                   test_preds |-> preds, targets |-> y]
        intervals == [j \in 1..Len(coverage) |->
                         ConformalInterval(j, coverage[j], H)]
    IN [ret |-> [kind |-> "interval", index |-> AbsoluteIndex(y, H),
                 columns |-> IntervalColumns(coverage),
                 values |-> [h \in 1..H |-> ConcatAxis1(intervals, 1, h)],
                 coverage |-> coverage],
        log |-> MemberPredictLog(fs) \o
                [j \in 1..Len(coverage) |->
                    FEvent("conformal_interval", NoObj, coverage[j], inputs)]]

\* _predict_interval, lines 227-252
EnbPIPredictInterval(fs, ixs, train_preds, y, H, coverage) ==
    LET preds == MemberPreds(fs)
        inputs == [indexes |-> ixs, train_preds |-> train_preds,
                   test_preds |-> preds, targets |-> y]
        intervals == [j \in 1..Len(coverage) |->
                         ConformalInterval(j, 100 - coverage[j], H)]
    IN [ret |-> [kind |-> "interval", index |-> AbsoluteIndex(y, H),
                 columns |-> IntervalColumns(coverage),
                 values |-> [h \in 1..H |-> ConcatAxis1(intervals, 1, h)],
                 coverage |-> coverage],
        log |-> MemberPredictLog(fs) \o
                [j \in 1..Len(coverage) |->
                    FEvent("conformal_interval", NoObj, 100 - coverage[j], inputs)]]

\* the coverage argument: a list of distinct levels
CoverageLists ==
    {c \in UNION {[1..n -> Coverages] : n \in 1..MaxCov} :
        \A i, j \in DOMAIN c : c[i] = c[j] => i = j}

PredictInterval ==
    /\ f_pc = "fitted"
    /\ \E coverage \in CoverageLists :
       LET r == EnbPIPredictInterval(forecasters, indexes, _preds, f_y, f_fh,
                                     coverage)
       IN f_ret' = r.ret /\ f_log' = r.log
    /\ UNCHANGED <<f_pc, f_params, f_y, f_fh, indexes, forecasters, _preds,
                   n_boot, csVars, genVars, evalVars>>

(***************************************************************************)
(* Initial states and specifications.  Each specification runs one of the  *)
(* four parts and leaves the others at rest.                               *)
(***************************************************************************)
RestScores ==
    /\ metrics = ScoringArg("none", << >>)
    /\ metrics_type = DictEmpty
    /\ cs_exc = "none"
    /\ cs_pc = "rest"

RestGen ==
    /\ gen_in = [ids |-> << >>, X |-> << >>, y |-> << >>,
                 cv |-> [n_splits |-> 2, perm |-> << >>]]
    /\ gen_out = << >>
    /\ gen_pc = "rest"

EvalLocals ==
    /\ scoring = DictEmpty
    /\ meta_classifier = Template
    /\ classifier = Template
    /\ next_fold = 0
    /\ results = << >>
    /\ retval = [index |-> << >>, rows |-> << >>, columns |-> << >>, lazy |-> FALSE]
    /\ exc = "none"
    /\ warns = << >>
    /\ log = << >>
    /\ submitted = {}

RestEval ==
    /\ pc = "rest"
    /\ args = [scoring |-> ScoringArg("none", << >>)]
    /\ EvalLocals

EnbNew ==
    /\ f_params = [bootstrap_transformer |-> Unset, aggregation_function |-> "mean",
                   _aggregation_function |-> "unset",
                   bootstrap_transformer_ |-> Unset, exc |-> "none"]
    /\ f_y = << >>
    /\ f_fh = 0
    /\ indexes = << >>
    /\ forecasters = << >>
    /\ _preds = << >>
    /\ n_boot = 0
    /\ f_ret = NoReturn
    /\ f_log = << >>

RestEnb == f_pc = "rest" /\ EnbNew

InitScores ==
    /\ metrics \in ScoringArgs
    /\ metrics_type = DictEmpty
    /\ cs_exc = "none"
    /\ cs_pc = "call"
    /\ RestGen /\ RestEval /\ RestEnb

InitGen ==
    /\ gen_in \in GenInputs
    /\ gen_out = << >>
    /\ gen_pc = "run"
    /\ RestScores /\ RestEval /\ RestEnb

InitEval ==
    /\ pc = "idle"
    /\ args \in EvalArgs
    /\ EvalLocals
    /\ RestScores /\ RestGen /\ RestEnb

InitEnb ==
    /\ f_pc = "new"
    /\ EnbNew
    /\ RestScores /\ RestGen /\ RestEval

NextScores == CheckScoresCall

NextGen == GenNextFold

NextEval ==
    \/ EvaluateStart
    \/ EvaluateFold
    \/ EvaluateFinish
    \/ EvaluateFinishDask

NextEnb ==
    \/ Construct
    \/ Fit
    \/ Refit
    \/ Update
    \/ Predict
    \/ PredictInterval

SpecScores == InitScores /\ [][NextScores]_vars

SpecGen == InitGen /\ [][NextGen]_vars

SpecEval == InitEval /\ [][NextEval]_vars

SpecEnb == InitEnb /\ [][NextEnb]_vars

(***************************************************************************)
(* Properties of evaluate (checked under SpecEval).                        *)
(***************************************************************************)
\* the folds the splitter produces for the call's data
Folds == gen_y_X_train_test(args.y, args.X, args.cv).folds

\* the score columns of the schema
ScoreColumns ==
    {MetricKeys(Flat(scoring)[j].scitype, Flat(scoring)[j].metric).result_key :
        j \in 1..Len(Flat(scoring))}

\* the row evaluate holds for fold i
RowOf(i) == results[i + 1].frame

\* C1: when evaluate returns, the table has exactly one row per fold the
\* splitter produced, indexed 0..k-1, and row i was computed from fold i (it
\* carries fold i's test data when return_data is set); under a non-raising
\* error policy no fold's failure ends the run.
C1_OneRowPerFoldInOrder ==
    /\ pc = "returned" =>
         /\ Len(retval.rows) = Len(Folds)
         /\ Len(retval.index) = Len(Folds)
         /\ \A j \in 1..Len(retval.rows) :
              /\ retval.index[j] = j - 1
              /\ retval.rows[j].origin = j - 1
              /\ args.return_data =>
                   /\ retval.rows[j].frame.vals["X_test"] = Folds[j].X_test
                   /\ retval.rows[j].frame.vals["y_test"] = Folds[j].y_test
                   /\ retval.rows[j].frame.vals["X_train"] = Folds[j].X_train
                   /\ retval.rows[j].frame.vals["y_train"] = Folds[j].y_train
    /\ exc = "FoldError" => args.error_score = "raise"

\* a returned table of two rows, one of a fold that failed and one of a
\* fold that succeeded, with the data kept
C1_Witness ==
    /\ pc = "returned"
    /\ Len(retval.rows) = 2
    /\ Len(warns) = 1
    /\ args.return_data

\* C2: under error_score "raise", a call that raises in fold i ends evaluate
\* with that exception: no table is returned, there are rows for the folds
\* before i only, no warning, and the raising call is the last call made.
C2_RaisePolicyAborts ==
    args.error_score = "raise" =>
      \A p \in 1..Len(log) : ~log[p].ok =>
         /\ pc = "raised"
         /\ exc = "FoldError"
         /\ retval.rows = << >>
         /\ Len(results) = log[p].fold
         /\ \A j \in 1..Len(results) : results[j].origin < log[p].fold
         /\ p = Len(log)
         /\ \A q \in 1..Len(log) : log[q].fold <= log[p].fold
         /\ warns = << >>

\* predict raises in the first of two folds
C2_Witness ==
    /\ args.error_score = "raise"
    /\ exc = "FoldError"
    /\ Len(Folds) = 2
    /\ \E p \in 1..Len(log) :
         log[p].op = "predict" /\ ~log[p].ok /\ log[p].fold = 0

\* C3: under a numeric error_score, a fold whose fit raises still gives its
\* row: every score column holds error_score, fit_time is NaN, exactly one
\* FitFailedWarning names the classifier type, the fold and len(y_train);
\* the run goes on, and a returned table has a row for every fold.
C3_FitFailureGivesDefaultRow ==
    args.error_score # "raise" =>
      /\ exc # "FoldError"
      /\ \A p \in 1..Len(log) : (log[p].op = "fit" /\ ~log[p].ok) =>
           LET i == log[p].fold IN
           /\ Len(results) > i
           /\ results[i + 1].origin = i
           /\ \A c \in ScoreColumns : RowOf(i).vals[c] = args.error_score
           /\ RowOf(i).vals["fit_time"] = "nan"
           /\ Cardinality({w \in 1..Len(warns) : warns[w].split = i}) = 1
           /\ \A w \in 1..Len(warns) : warns[w].split = i =>
                /\ warns[w].category = "FitFailedWarning"
                /\ warns[w].classifier_type = ClassifierType
                /\ warns[w].len_y_train = Len(Folds[i + 1].y_train)
      /\ pc = "returned" =>
           /\ Len(retval.rows) = Len(Folds)
           /\ \A i \in 0..(Len(Folds) - 1) :
                \E p \in 1..Len(log) : log[p].fold = i /\ log[p].op = "clone"

\* C4: under a non-raising policy, whatever call raises in a fold, every
\* score column of that fold's row holds error_score.
C4_EveryFailureDefaultsAllScores ==
    args.error_score # "raise" =>
      \A p \in 1..Len(log) : ~log[p].ok =>
         /\ Len(results) > log[p].fold
         /\ \A c \in ScoreColumns : RowOf(log[p].fold).vals[c] = args.error_score

\* C5: every fold's frame, and the returned table, has exactly the columns
\* of the schema built from scoring and return_data, in its order, whatever
\* happened in the fold.
C5_ColumnsAreTheSchema ==
    LET order == _get_column_order_and_datatype(scoring, args.return_data).keys IN
    /\ \A j \in 1..Len(results) : results[j].frame.cols = order
    /\ pc = "returned" => retval.columns = order

\* two rows of one run: fit raised in one fold, a prediction in the other
C5_Witness ==
    /\ pc = "returned"
    /\ Len(results) = 2
    /\ Len(Flat(scoring)) = 2
    /\ \E p \in 1..Len(log) : log[p].op = "fit" /\ ~log[p].ok /\ log[p].fold = 0
    /\ \E p \in 1..Len(log) : log[p].op = "predict_proba" /\ ~log[p].ok /\ log[p].fold = 1

\* C8: with a named backend every fold is handed to that backend as a task
\* of its own, with backend_params; with backend None nothing is.
C8_NamedBackendGetsTheFolds ==
    pc = "returned" =>
      IF args.run.backend = "None"
      THEN submitted = {}
      ELSE submitted =
             {[fold |-> i, backend |-> args.run.backend,
               backend_params |-> args.run.backend_params] :
                 i \in 0..(Len(Folds) - 1)}

(***************************************************************************)
(* Properties of _check_scores (checked under SpecScores).                 *)
(***************************************************************************)
\* the type the three tests give a metric, the first that matches deciding
ExpectedType(m) ==
    IF m.name \in PROBA_METRICS \/ m.sig = "indicator" \/ m.trial = "ok"
    THEN "pred_proba" ELSE "pred"

ListOf(scitype) ==
    IF DictHas(metrics_type, scitype) THEN metrics_type.val[scitype] ELSE << >>

\* C6: _check_scores raises ValueError and returns nothing when an entry is
\* not callable; otherwise it returns a mapping in which every supplied
\* metric is in the list of the type the three tests give it, and in no
\* other list.
C6_EveryMetricClassifiedOnce ==
    cs_pc = "done" =>
      LET ms == NormaliseMetrics(metrics) IN
      IF \E j \in 1..Len(ms) : ~ms[j].callable
      THEN cs_exc = "ValueError" /\ metrics_type = DictEmpty
      ELSE /\ cs_exc = "none"
           /\ Len(ListOf("pred")) + Len(ListOf("pred_proba")) = Len(ms)
           /\ \A j \in 1..Len(ms) :
                /\ ms[j] \in Range(ListOf(ExpectedType(ms[j])))
                /\ \A t \in {"pred", "pred_proba"} \ {ExpectedType(ms[j])} :
                     ms[j] \notin Range(ListOf(t))

(***************************************************************************)
(* Properties of gen_y_X_train_test (checked under SpecGen).               *)
(***************************************************************************)
InstancesOfX(rows) == {rows[r].inst : r \in DOMAIN rows}

\* the j-th row of y belongs to the j-th instance of the data
InstancesOfY(rows) == {gen_in.ids[rows[r].ix + 1] : r \in DOMAIN rows}

\* C7: in every fold yielded, the train and test instances are disjoint and
\* together are all n instances; X_train / X_test hold all rows of exactly
\* the instances the splitter assigned to train / test, y_train / y_test
\* the target rows of the same instances; and when the generator is
\* exhausted every instance was in the test set of exactly one fold.
C7_FoldsPartitionInstances ==
    LET n == Len(gen_in.ids)
        all == Range(gen_in.ids)
    IN
    /\ \A j \in 1..Len(gen_out) :
         LET f == gen_out[j]
             sp == KFoldSplit(n, gen_in.cv.n_splits, gen_in.cv.perm)[j]
             train == InstancesOfX(f.X_train)
             test == InstancesOfX(f.X_test)
         IN /\ train \cap test = {}
            /\ train \cup test = all
            /\ Cardinality(train) + Cardinality(test) = n
            /\ train = {gen_in.ids[p] : p \in sp.train}
            /\ test = {gen_in.ids[p] : p \in sp.test}
            /\ Len(f.X_train) = SeriesLen * Cardinality(train)
            /\ Len(f.X_test) = SeriesLen * Cardinality(test)
            /\ InstancesOfY(f.y_train) = train
            /\ InstancesOfY(f.y_test) = test
            /\ Len(f.y_train) = Cardinality(train)
            /\ Len(f.y_test) = Cardinality(test)
    /\ gen_pc = "exhausted" =>
         \A id \in all :
           Cardinality({j \in 1..Len(gen_out) :
                           id \in InstancesOfX(gen_out[j].X_test)}) = 1

\* a full cycle over three instances whose identifiers are not their
\* positions, shuffled, with rows ordered by time point
C7_Witness ==
    /\ gen_pc = "exhausted"
    /\ Len(gen_out) = 2
    /\ Len(gen_in.ids) = 3
    /\ gen_in.ids[1] # 0
    /\ gen_in.cv.perm # Identity(3)
    /\ gen_in.X[1].inst # gen_in.X[2].inst

(***************************************************************************)
(* Properties of EnbPIForecaster (checked under SpecEnb).                  *)
(***************************************************************************)
\* C9: whenever the forecaster is fitted, the fitted clones, the stored
\* in-sample predictions, the bootstrap samples of the last fit_transform
\* and the rows of the index matrix are equally many.
C9_EnsembleSizesAgree ==
    f_pc = "fitted" =>
      /\ Len(forecasters) = n_boot
      /\ Len(_preds) = n_boot
      /\ Len(indexes) = n_boot
      /\ \A r \in 1..Len(indexes) : Len(indexes[r]) = Len(f_y)

\* fitted again by update, on a series one observation longer, with the
\* largest ensemble
C9_Witness ==
    /\ f_pc = "fitted"
    /\ n_boot = MaxBoot
    /\ Len(f_y) = 3
    /\ f_y[3] = f_y[2] /\ f_y[2] # f_y[1]

\* the forecasts of the fitted members for horizon step h
MemberColumn(h) == [m \in 1..Len(forecasters) |-> forecasters[m].pred[h]]

CountOf(col, Test(_)) == Cardinality({m \in 1..Len(col) : Test(col[m])})

\* v = <<p, q>> is the median of col: the midpoint of two adjacent values
\* a <= b of the sorted column that split it in halves
IsMedian(v, col) ==
    LET n == Len(col) IN
    \E a, b \in Range(col) :
       LET Below(x) == x < a
           Above(x) == x > b
           AtMostA(x) == x <= a
           AtLeastB(x) == x >= b
           Between(x) == a < x /\ x < b
       IN /\ a <= b
          /\ 2 * v[1] = (a + b) * v[2]
          /\ CountOf(col, Between) = 0
          /\ IF n % 2 = 1
             THEN a = b /\ 2 * CountOf(col, Below) < n /\ 2 * CountOf(col, Above) < n
             ELSE 2 * CountOf(col, AtMostA) >= n /\ 2 * CountOf(col, AtLeastB) >= n
                  /\ 2 * CountOf(col, Below) < n /\ 2 * CountOf(col, Above) < n

\* C10: predict returns one row per horizon step; the value at a step is
\* the mean (for "mean") or the median (for "median") of the fitted
\* members' forecasts at that step, and is their common value when they all
\* agree.
C10_PredictAggregatesMembers ==
    f_ret.kind = "predict" =>
      /\ Len(f_ret.values) = f_fh
      /\ Len(f_ret.index) = f_fh
      /\ \A h \in 1..f_fh :
           LET col == MemberColumn(h)
               v == f_ret.values[h]
           IN /\ v[2] > 0
              /\ f_params.aggregation_function = "mean" =>
                   v[1] * Len(col) = v[2] * SumSeq(col)
              /\ f_params.aggregation_function = "median" => IsMedian(v, col)
              /\ (\A m \in 1..Len(col) : col[m] = col[1]) => v = <<col[1], 1>>

\* the median of three members that disagree, over two horizon steps, at
\* a step where their mean is another value
C10_Witness ==
    /\ f_ret.kind = "predict"
    /\ f_params.aggregation_function = "median"
    /\ Len(forecasters) = 3
    /\ f_fh = 2
    /\ \E h \in 1..f_fh :
         /\ f_ret.values[h] # NpMean(MemberColumn(h))
         /\ \E m \in 1..Len(forecasters) :
              forecasters[m].pred[h] # forecasters[1].pred[h]

\* no call was made on a collaborator and no ensemble attribute was set
NothingFitted ==
    /\ f_log = << >>
    /\ forecasters = << >>
    /\ indexes = << >>
    /\ _preds = << >>
    /\ n_boot = 0
    /\ f_y = << >>

\* C11: when the resolved bootstrap transformer lacks the capability tag or
\* has return_indices not set, the constructor raises ValueError and, in
\* that state and ever after, no fit_transform was called, no clone was
\* fitted and no ensemble state exists.
C11_IncapableTransformerRaisesFirst ==
    LET bt == f_params.bootstrap_transformer_ IN
    (bt # Unset /\ (~bt.capable \/ ~bt.return_indices)) =>
       /\ f_params.exc = "ValueError"
       /\ f_pc = "init_error"
       /\ NothingFitted

\* an sktime transformer that has the tag but not return_indices
C11_Witness ==
    /\ f_pc = "init_error"
    /\ f_params.exc = "ValueError"
    /\ f_params.bootstrap_transformer.kind = "sktime"
    /\ f_params.bootstrap_transformer.capable
    /\ ~f_params.bootstrap_transformer.return_indices
    /\ f_params.bootstrap_transformer_ = f_params.bootstrap_transformer

\* C12: constructed with bootstrap_transformer = None (and a supported
\* aggregation function), the constructor does not raise and resolves
\* bootstrap_transformer_ to a TSBootstrapAdapter that passes the check.
C12_NoneDefaultConstructs ==
    (/\ f_pc # "new"
     /\ f_params.bootstrap_transformer.kind = "None"
     /\ f_params.aggregation_function \in {"mean", "median"}) =>
       /\ f_params.exc = "none"
       /\ f_pc # "init_error"
       /\ f_params.bootstrap_transformer_.kind = "adapter"
       /\ f_params.bootstrap_transformer_.capable
       /\ f_params.bootstrap_transformer_.return_indices

(***************************************************************************)
(* Further properties of evaluate (checked under SpecEval).                *)
(***************************************************************************)
\* fold i has its row and no call of it raised
FoldSucceeded(i) ==
    /\ Len(results) > i
    /\ \A p \in 1..Len(log) : log[p].fold = i => log[p].ok

KeysOf(j) == MetricKeys(Flat(scoring)[j].scitype, Flat(scoring)[j].metric)

\* the j-th metric is the first of its (prediction type, variant) pair
FirstOfPair(j) == \A h \in 1..(j - 1) : KeysOf(h).y_pred_key # KeysOf(j).y_pred_key

\* the first metric of the pair of the j-th metric
PairStart(j) ==
    CHOOSE h \in 1..j :
       FirstOfPair(h) /\ KeysOf(h).y_pred_key = KeysOf(j).y_pred_key

\* the number, in call order, of the prediction call made for the pair of
\* the j-th metric
CallOfPair(j) == Cardinality({h \in 1..PairStart(j) : FirstOfPair(h)})

\* C13: in a fold that succeeded, the prediction method of each (prediction
\* type, variant) pair was called exactly once, before the first metric of
\* the pair was scored; every metric of the pair is scored on what that one
\* call returned, and the pair's time column holds the duration of that
\* call.
C13_OnePredictionPerPair ==
    \A i \in 0..(Len(results) - 1) : FoldSucceeded(i) =>
      LET flat == Flat(scoring)
          PredEvents == {p \in 1..Len(log) :
                            log[p].fold = i /\ log[p].op \notin {"clone", "fit", "score"}}
      IN
      /\ Cardinality(PredEvents) =
           Cardinality({KeysOf(j).y_pred_key : j \in 1..Len(flat)})
      /\ \A j \in 1..Len(flat) :
           LET k == KeysOf(j)
               method == PRED_TYPE[flat[j].scitype]
               calls == {p \in PredEvents : log[p].op = method /\ log[p].arg = k.y_pred_key}
               c == CallOfPair(j)
           IN /\ Cardinality(calls) = 1
              /\ \A p \in calls : \A q \in 1..Len(log) :
                   (log[q].fold = i /\ log[q].op = "score"
                      /\ log[q].arg = k.result_key) => p < q
              /\ \E h \in 1..Len(flat) :
                   /\ KeysOf(h).result_key = k.result_key
                   /\ KeysOf(h).y_pred_key = k.y_pred_key
                   /\ RowOf(i).vals[k.result_key] =
                        ScoreValue(flat[h].metric, PredToken(method, i, c))
              /\ RowOf(i).vals[k.time_key] = TimeToken(method, c)
              /\ args.return_data =>
                   RowOf(i).vals[k.y_pred_key] = PredToken(method, i, c)

\* two metrics of one pair, scored in a fold that succeeded
C13_Witness ==
    /\ pc = "returned"
    /\ args.return_data
    /\ Len(Flat(scoring)) = 2
    /\ KeysOf(1).y_pred_key = KeysOf(2).y_pred_key
    /\ KeysOf(1).result_key # KeysOf(2).result_key
    /\ FoldSucceeded(0)
    /\ Cardinality({p \in 1..Len(log) : log[p].fold = 0 /\ log[p].op = "score"}) = 2

(***************************************************************************)
(* Further properties of EnbPIForecaster (checked under SpecEnb).          *)
(***************************************************************************)
\* the attributes of the forecaster
Attributes == <<f_pc, f_params, f_y, f_fh, indexes, forecasters, _preds, n_boot>>

\* C14: a predict or predict_interval call changes no attribute of the
\* forecaster (the ensemble is as it was and nothing is stored); a refit or
\* an update that completes leaves exactly the members, in-sample
\* predictions and index rows of that fit, all made from the series it was
\* given, and nothing of the ensemble before.
C14_EnsembleChangedOnlyByFit ==
    [][ /\ f_ret'.kind # "none" => UNCHANGED Attributes
        /\ (f_pc \in {"fitting", "fitted"} /\ f_ret'.kind = "none"
              /\ f_pc' = "fitted") =>
             /\ Len(forecasters') = n_boot'
             /\ Len(_preds') = n_boot'
             /\ Len(indexes') = n_boot'
             /\ \A j \in 1..n_boot' :
                  /\ forecasters'[j].id = j
                  /\ \E p \in 1..Len(f_log') :
                       f_log'[p].op = "fit" /\ f_log'[p].obj = j
                  /\ _preds'[j] = [by |-> j, len |-> Len(f_y')]
                  /\ Len(indexes'[j]) = Len(f_y')
      ]_vars

\* a predict_interval call on a forecaster that was updated before
C14_Witness ==
    /\ f_ret.kind = "interval"
    /\ Len(f_ret.columns) = 4
    /\ Len(f_y) = 3
    /\ f_y[3] = f_y[2] /\ f_y[2] # f_y[1]
    /\ Len(forecasters) = 2

(***************************************************************************)
(* Properties of the classifier objects in evaluate (under SpecEval).      *)
(***************************************************************************)
OnClassifier(p) == log[p].op \in {"fit", "predict", "predict_proba", "predict_quantiles"}

\* C15: every clone is made from the template the caller passed, and is a
\* new object; fit and the prediction methods are only ever called on the
\* clone made in the same fold, never on the template; the keyword dict
\* keeps the template although evaluate's local classifier is rebound to
\* the clone each fold returns.
C15_EveryFoldClonesTheTemplate ==
    /\ meta_classifier = args.classifier
    /\ \A p \in 1..Len(log) :
         /\ log[p].op = "clone" =>
              /\ log[p].src = args.classifier
              /\ log[p].ok =>
                   /\ log[p].obj # args.classifier
                   /\ \A q \in 1..Len(log) :
                        (log[q].op = "clone" /\ log[q].ok /\ q # p) =>
                           log[q].obj # log[p].obj
         /\ OnClassifier(p) =>
              /\ log[p].obj # args.classifier
              /\ \E q \in 1..(p - 1) :
                   /\ log[q].op = "clone" /\ log[q].ok
                   /\ log[q].obj = log[p].obj
                   /\ log[q].fold = log[p].fold
    /\ \A i \in 0..(next_fold - 1) :
         Cardinality({p \in 1..Len(log) : log[p].op = "clone" /\ log[p].fold = i}) = 1

\* the second fold has run after the local classifier was rebound to the
\* clone of the first
C15_Witness ==
    /\ next_fold = 2
    /\ classifier # args.classifier
    /\ \E p \in 1..Len(log) :
         log[p].fold = 1 /\ log[p].op = "predict" /\ log[p].ok
    /\ \E p \in 1..Len(log) :
         log[p].fold = 0 /\ log[p].op = "fit" /\ log[p].ok

\* the calls of the conformal routine in the log, in call order
ConformalCalls ==
    SelectIdx(f_log, {p \in 1..Len(f_log) : f_log[p].op = "conformal_interval"}, 1)

\* C16: after predict_interval(coverage = [c_1, ..., c_m]) every member's
\* predict was called once and the conformal routine m times, the j-th time
\* with error rate 1 - c_j (in percent: 100 - c_j), the index matrix, the
\* in-sample predictions, the members' horizon forecasts and the training
\* targets; the table has one row per horizon step, and its columns
\* (y, c_j, lower), (y, c_j, upper) hold what the j-th call returned.
C16_OneConformalCallPerCoverage ==
    f_ret.kind = "interval" =>
      LET coverage == f_ret.coverage
          m == Len(coverage)
          calls == ConformalCalls
      IN
      /\ \A f \in 1..Len(forecasters) :
           Cardinality({p \in 1..Len(f_log) :
                           f_log[p].op = "predict"
                           /\ f_log[p].obj = forecasters[f].id}) = 1
      /\ Len(f_log) = Len(forecasters) + m
      /\ Len(calls) = m
      /\ \A j \in 1..m :
           /\ calls[j].error = 100 - coverage[j]
           /\ calls[j].inputs.indexes = indexes
           /\ calls[j].inputs.train_preds = _preds
           /\ calls[j].inputs.test_preds =
                [f \in 1..Len(forecasters) |-> forecasters[f].pred]
           /\ calls[j].inputs.targets = f_y
      /\ Len(f_ret.values) = f_fh
      /\ Len(f_ret.index) = f_fh
      /\ Len(f_ret.columns) = 2 * m
      /\ \A j \in 1..m :
           /\ f_ret.columns[2 * j - 1] = <<"y", coverage[j], "lower">>
           /\ f_ret.columns[2 * j] = <<"y", coverage[j], "upper">>
           /\ \A h \in 1..f_fh :
                /\ Len(f_ret.values[h]) = 2 * m
                /\ f_ret.values[h][2 * j - 1] =
                     ConformalInterval(j, calls[j].error, f_fh)[h][1]
                /\ f_ret.values[h][2 * j] =
                     ConformalInterval(j, calls[j].error, f_fh)[h][2]

\* two coverage levels, two members, two horizon steps
C16_Witness ==
    /\ f_ret.kind = "interval"
    /\ f_ret.coverage = <<90, 50>>
    /\ Len(forecasters) = 2
    /\ f_fh = 2

(***************************************************************************)
(* The score columns of the schema (checked under SpecEval).               *)
(***************************************************************************)
\* the columns of the schema that are not scores: the times, the data and
\* the predictions
OtherColumns ==
    {"fit_time"} \cup Range(Y_METADATA.keys)
    \cup {KeysOf(j).time_key : j \in 1..Len(Flat(scoring))}
    \cup {KeysOf(j).y_pred_key : j \in 1..Len(Flat(scoring))}

\* the test_<metric> columns among cols
ScoreColumnsIn(cols) == {c \in 1..Len(cols) : cols[c] \notin OtherColumns}

\* C17: once scoring is classified, the schema has as many test_<metric>
\* columns as metrics were supplied, and so has every fold's row.
C17_OneScoreColumnPerMetric ==
    pc \in {"loop", "returned"} =>
      LET schema == _get_column_order_and_datatype(scoring, args.return_data)
          supplied == Len(NormaliseMetrics(args.scoring))
      IN /\ Cardinality(ScoreColumnsIn(schema.keys)) = supplied
         /\ \A i \in 1..Len(results) :
              Cardinality(ScoreColumnsIn(results[i].frame.cols)) = supplied

====
